---- MODULE Spec2Model ----
(***************************************************************************)
(* MAGI council: three MagiAgent responders, one DeliberatorAgent, and the *)
(* MagiSystem orchestrator (src/agents/).  Texts are sequences of tokens,  *)
(* so that string concatenation (f"Error: {e}") is sequence concatenation. *)
(* The model connection, the structured-output chain and the SQL history   *)
(* store are external: each call to them returns or raises, chosen by \E.  *)
(***************************************************************************)
EXTENDS Integers, Sequences, FiniteSets, TLC

\* ------------------------------------------------------------------ bounds
MaxOps == 3          \* respond / clear_memory calls in AgentSpec
MaxExchange == 2     \* messages after the human turn in a model exchange
MaxRounds == 2       \* query_magi / clear_all_memory calls in Spec
MaxJudgeEvals == 2   \* evaluations in a judge reply

\* ------------------------------------------------------------------ texts
Questions == {<<"q1">>, <<"q2">>}
AnswerTexts == {<<"A">>, <<"B">>}
ToolTexts == {<<"doc">>}
ErrMsgs == {<<"timeout">>}
\* str(StopIteration()) is the empty string
StopIterationMsg == <<>>

\* ------------------------------------------------------- persona registry
PERSONALITIES == <<"MELCHIOR", "BALTHASAR", "CASPER">>

get_all_personalities == PERSONALITIES

AgentNames == {PERSONALITIES[i] : i \in 1..Len(PERSONALITIES)}

\* name.lower().replace("-", "_")
table_name(name) ==
    CASE name = "MELCHIOR" -> "melchior"
      [] name = "BALTHASAR" -> "balthasar"
      [] name = "CASPER" -> "casper"

DeliberatorTable == "deliberator"

Tables == {table_name(n) : n \in AgentNames} \cup {DeliberatorTable}

\* ---------------------------------------------------------- history store
\* SQLChatMessageHistory(session_id, connection, table_name): one table per
\* table_name in the database all sessions use; a row carries the session id
EmptyStore == [t \in Tables |-> <<>>]

NoLine == <<"<none>">>

\* the lines the loop of main.py is explored with, a line being the sequence
\* of its words and blanks
Whitespace == {" "}

InputLines ==
    {<<>>, <<" ">>, <<"quit">>, <<"EXIT">>, <<"q">>, <<"clear">>,
     <<" ", "Clear">>, <<" ", "q2", " ">>}

\* str.lower()
lower(p) ==
    CASE p = "GEMINI" -> "gemini"
      [] p = "EXIT" -> "exit"
      [] p = "Clear" -> "clear"
      [] OTHER -> p

lower_text(s) == [i \in 1..Len(s) |-> lower(s[i])]

RECURSIVE lstrip(_)
lstrip(s) ==
    IF s # <<>> /\ Head(s) \in Whitespace THEN lstrip(Tail(s)) ELSE s

RECURSIVE rstrip(_)
rstrip(s) ==
    IF s # <<>> /\ s[Len(s)] \in Whitespace
    THEN rstrip(SubSeq(s, 1, Len(s) - 1))
    ELSE s

\* leading blanks only
strip_left(s) == lstrip(s)

\* str.strip()
strip(s) == rstrip(lstrip(s))

\* what one pass of the while loop of main.py does with the line it read
main_command(raw) ==
    LET query == strip(raw)
    IN  IF query = <<>> THEN "continue"
        ELSE IF lower_text(query) \in {<<"quit">>, <<"exit">>, <<"q">>}
        THEN "break"
        ELSE IF lower_text(query) = <<"clear">> THEN "clear"
        ELSE "query"

RECURSIVE turns_of(_)
turns_of(rows) ==
    IF rows = <<>> THEN <<>>
    ELSE <<[role |-> rows[1].role, content |-> rows[1].content]>>
         \o turns_of(Tail(rows))

\* every row of the table, whatever its session
messages_any_session(st, table, sid) == turns_of(st[table])

\* message_history.messages: the rows of this session, in insertion order
messages(st, table, sid) ==
    turns_of(SelectSeq(st[table], LAMBDA row : row.session_id = sid))

\* add_user_message / add_ai_message: rows appended for this session
RECURSIVE rows_of(_, _)
rows_of(sid, turns) ==
    IF turns = <<>> THEN <<>>
    ELSE <<[session_id |-> sid, role |-> turns[1].role,
            content |-> turns[1].content]>> \o rows_of(sid, Tail(turns))

store_add(st, table, sid, turns) ==
    [st EXCEPT ![table] = @ \o rows_of(sid, turns)]

\* a clear that forgets the session id
store_clear_table(st, table, sid) == [st EXCEPT ![table] = <<>>]

\* message_history.clear(): deletes the rows of this session
store_clear(st, table, sid) ==
    [st EXCEPT ![table] = SelectSeq(@, LAMBDA row : row.session_id # sid)]

add_user_message(h, text) == Append(h, [role |-> "human", content |-> text])

add_ai_message(h, text) == Append(h, [role |-> "ai", content |-> text])

\* ------------------------------------------------------- model connection
Msg(type, text) == [type |-> type, text |-> text]

ReplyMsgs ==
    {Msg("ai", t) : t \in AnswerTexts} \cup {Msg("tool", t) : t \in ToolTexts}

\* response["messages"]: the human turn, then ai and tool messages
Exchanges(query) ==
    {<<Msg("human", query)>> \o s :
        s \in UNION {[1..n -> ReplyMsgs] : n \in 0..MaxExchange}}

HasAi(x) == \E i \in 1..Len(x) : x[i].type = "ai"

\* the first ai message instead of the last
first_ai_response(x, i) ==
    x[CHOOSE j \in 1..Len(x) :
        /\ x[j].type = "ai"
        /\ \A k \in 1..(j - 1) : x[k].type # "ai"]

\* next(m for m in reversed(response["messages"]) if m.type == "ai")
RECURSIVE final_ai_response(_, _)
final_ai_response(x, i) ==
    IF x[i].type = "ai" THEN x[i] ELSE final_ai_response(x, i - 1)

\* ------------------------------------------------------------- MagiAgent
NoValue == [none |-> TRUE]

Returned(v, h) == [raised |-> FALSE, msg |-> <<>>, value |-> v, h |-> h]

Raised(m, h) == [raised |-> TRUE, msg |-> m, value |-> NoValue, h |-> h]

RespondFails == {"none", "read", "invoke", "add_user", "add_ai"}

\* The try block of respond: h is the agent's history, fail names the
\* external call that raises (with message m), x is the exchange the model
\* returns when it does not raise.
respond_try(name, h, query, fail, m, x) ==
    IF fail \in {"read", "invoke"} THEN Raised(m, h)
    ELSE IF ~HasAi(x) THEN Raised(StopIterationMsg, h)
    ELSE LET final == final_ai_response(x, Len(x)).text IN
         IF fail = "add_user" THEN Raised(m, h)
         ELSE LET h1 == add_user_message(h, query) IN
              IF fail = "add_ai" THEN Raised(m, h1)
              ELSE Returned([agent |-> name, response |-> final,
                             success |-> TRUE],
                            add_ai_message(h1, final))

\* except Exception as e: the failed answer
respond_except(name, m) ==
    [agent |-> name, response |-> <<"Error: ">> \o m, success |-> FALSE]

respond_uncaught(name, h, query, fail, m, x) ==
    LET r == respond_try(name, h, query, fail, m, x) IN
    IF r.raised /\ fail \in {"add_user", "add_ai"} THEN r
    ELSE IF r.raised THEN Returned(respond_except(name, r.msg), r.h)
    ELSE r

respond(name, h, query, fail, m, x) ==
    LET r == respond_try(name, h, query, fail, m, x) IN
    IF r.raised THEN Returned(respond_except(name, r.msg), r.h) ELSE r

\* a clear that leaves the stored turns in place
clear_memory_keep(h) == h

\* message_history.clear()
clear_memory(h) == <<>>

\* ------------------------------------------------------ DeliberatorAgent
\* AgentEvaluation.score: Field(ge=1, le=10)
ScoreMin == 1
ScoreMax == 10
\* score=1 of the default DeliberationResult
FallbackScore == 1

ValidationMsg == <<"validation error">>

IsNone(v) == v = NoValue

Successful(responses) == SelectSeq(responses, LAMBDA r : r.success)

\* "\n\n".join(f"Agent: {r['agent']}\nResponse: {r['response']}" ...)
RECURSIVE join_entries(_)
join_entries(rs) ==
    IF rs = <<>> THEN <<>>
    ELSE LET entry == <<"Agent: ", rs[1].agent, "\nResponse: ">>
                      \o rs[1].response
         IN  IF Len(rs) = 1 THEN entry
             ELSE entry \o <<"\n\n">> \o join_entries(Tail(rs))

\* the entries without "if r['success']"
formatted_all(responses) == join_entries(responses)

formatted_responses(responses) == join_entries(Successful(responses))

\* What the judge model can send back to the structured-output chain
JudgeNames == AgentNames \cup {"GHOST"}
JudgeScores == {ScoreMin - 1, 7, ScoreMax + 1}
JudgeEvals ==
    [agent : JudgeNames, score : JudgeScores, reasoning : {<<"r">>}]
JudgeData ==
    [evaluations : UNION {[1..n -> JudgeEvals] : n \in 0..MaxJudgeEvals},
     synthesis : {<<>>, <<"S">>},
     voting_result : {<<"V">>}]
NoData == [evaluations |-> <<>>, synthesis |-> <<>>, voting_result |-> <<>>]
NoReply == [kind |-> "unread", msg |-> <<>>, data |-> NoData]
\* text the judge can send in place of a structured payload: plain prose, or
\* a DeliberationResult wrapped in a fenced block (msg is the raw text, data
\* what the block encloses)
ProseTexts == {<<"I think option B is best.">>}
FencedText == <<"[fenced json block]">>
FencedData == {d \in JudgeData : Len(d.evaluations) <= 1}
JudgeReplies ==
    {[kind |-> "raise", msg |-> m, data |-> NoData] : m \in ErrMsgs}
    \cup {[kind |-> "none", msg |-> <<>>, data |-> NoData]}
    \cup {[kind |-> "data", msg |-> <<>>, data |-> d] : d \in JudgeData}
    \cup {[kind |-> "prose", msg |-> t, data |-> NoData] : t \in ProseTexts}
    \cup {[kind |-> "fenced", msg |-> FencedText, data |-> d] :
             d \in FencedData}

\* the message of the parsing exception carries the text it could not parse
ParseMsg(text) == <<"Invalid json output: ">> \o text

\* pydantic validation of DeliberationResult / AgentEvaluation
unvalidated(d) == TRUE

validates(d) ==
    \A i \in 1..Len(d.evaluations) :
        /\ d.evaluations[i].score >= ScoreMin
        /\ d.evaluations[i].score <= ScoreMax

\* evaluation_prompt | llm.with_structured_output(DeliberationResult)
evaluation_chain(reply, h) ==
    CASE reply.kind = "raise" -> Raised(reply.msg, h)
      [] reply.kind = "none" -> Returned(NoValue, h)
      [] reply.kind = "data" ->
            IF validates(reply.data) THEN Returned(reply.data, h)
            ELSE Raised(ValidationMsg, h)
      \* nothing between the chain and the except clause reads raw text: a
      \* reply that is not the structured payload is the parser's exception
      [] reply.kind \in {"prose", "fenced"} ->
            Raised(ParseMsg(reply.msg), h)

EvaluateFails == {"none", "read"}

\* The try block of evaluate_responses
evaluate_try(h, fail, m, reply) ==
    IF fail = "read" THEN Raised(m, h) ELSE evaluation_chain(reply, h)

RECURSIVE default_evaluations(_)
default_evaluations(rs) ==
    IF rs = <<>> THEN <<>>
    ELSE <<[agent |-> rs[1].agent, score |-> FallbackScore,
            reasoning |-> <<"Evaluation failed.">>]>>
         \o default_evaluations(Tail(rs))

\* except Exception as e: the default DeliberationResult
evaluate_except(responses, m) ==
    [evaluations |-> default_evaluations(Successful(responses)),
     synthesis |-> <<"Error during evaluation: ">> \o m,
     voting_result |-> <<"Error">>]

evaluate_responses(responses, h, fail, m, reply) ==
    LET r == evaluate_try(h, fail, m, reply) IN
    IF r.raised THEN Returned(evaluate_except(responses, r.msg), r.h) ELSE r

FinalTexts == {<<"F">>}

SynthReplies ==
    {[kind |-> "raise", msg |-> m] : m \in ErrMsgs}
    \cup {[kind |-> "content", msg |-> t] : t \in FinalTexts}

\* response_map = {r["agent"]: r["response"] for r in responses if
\* r["success"]}: a later answer of the same agent replaces an earlier one
response_map_all(responses) ==
    [n \in {responses[i].agent : i \in 1..Len(responses)} |->
        LET j == CHOOSE j \in 1..Len(responses) :
                    /\ responses[j].agent = n
                    /\ \A k \in (j + 1)..Len(responses) :
                          responses[k].agent # n
        IN  responses[j].response]

\* the map without "if r['success']"
response_map_unfiltered(responses) == response_map_all(responses)

response_map(responses) == response_map_all(Successful(responses))

\* response_map.get(agent_name, "No response available")
map_get(map, name) ==
    IF name \in DOMAIN map THEN map[name] ELSE <<"No response available">>

\* the block of one evaluation, and the block of one answer when there are
\* no evaluations
scored_item(eval_item, map) ==
    <<"Agent: ", eval_item.agent, "\nScore: ", ToString(eval_item.score),
      "/10", "\nReasoning: ">> \o eval_item.reasoning
    \o <<"\nFull Response: ">> \o map_get(map, eval_item.agent)

unscored_item(r) ==
    <<"Agent: ", r.agent, "\nScore: ", "N/A",
      "\nReasoning: ", "Evaluation not available", "\nFull Response: ">>
    \o r.response

scored_items(responses, evaluation) ==
    IF evaluation.evaluations # <<>>
    THEN [i \in 1..Len(evaluation.evaluations) |->
            scored_item(evaluation.evaluations[i], response_map(responses))]
    ELSE [i \in 1..Len(Successful(responses)) |->
            unscored_item(Successful(responses)[i])]

\* "\n\n".join(scored_items)
RECURSIVE join_items(_)
join_items(items) ==
    IF items = <<>> THEN <<>>
    ELSE IF Len(items) = 1 THEN items[1]
    ELSE items[1] \o <<"\n\n">> \o join_items(Tail(items))

scored_responses(responses, evaluation) ==
    join_items(scored_items(responses, evaluation))

\* try / except of synthesise_final_answer
synthesise_final_answer(reply) ==
    IF reply.kind = "raise"
    THEN <<"Error synthesizing answer: ">> \o reply.msg
    ELSE reply.msg

RecordFails == {"none", "add_user", "add_ai"}

\* process_magi_decision: store the final answer in the message history
record_final_answer(h, query, answer, fail, m) ==
    IF fail = "add_user" THEN Raised(m, h)
    ELSE LET h1 == add_user_message(h, query) IN
         IF fail = "add_ai" THEN Raised(m, h1)
         ELSE Returned(answer, add_ai_message(h1, answer))


\* ------------------------------------------------------------------ state
VARIABLES
    hist,          \* history store: table name -> sequence of turns
    last,          \* the last direct respond / clear_memory call (AgentSpec)
    expected,      \* per agent: the turns of its successful respond calls
    ops,           \* calls made so far (AgentSpec)
    pc,            \* position inside query_magi / process_magi_decision
    question,      \* argument of the running query_magi
    idx,           \* position of the for loop over self.agents
    responses,     \* the list query_magi collects
    calls,         \* names of the agents respond was called on this round
    judge,         \* the judge call of evaluate_responses
    evaluation,    \* value returned by evaluate_responses
    final_answer,  \* value returned by synthesise_final_answer
    result,        \* value returned by query_magi
    rounds,        \* orchestrator calls, or input lines read, so far
    synth,         \* the synthesise_final_answer call of the running round
    file,          \* the result file the front end wrote for the round
    files,         \* number of result files the front end has written
    since_clear,   \* rounds started since clear_all_memory (-1: no clear yet)
    rag,           \* a RAGTool and its last search (RagSpec)
    conf,          \* a MagiSystem under construction (ConfigSpec)
    line,          \* the last input line the loop of main.py read
    store,         \* the history store all sessions share (SessionSpec)
    systems,       \* the MagiSystem instances constructed (SessionSpec)
    threads,       \* respond calls in progress at the same time (RaceSpec)
    chat_history   \* st.session_state.chat_history of the web page (WebSpec)

agentVars == <<hist, last, expected>>

roundVars ==
    <<pc, question, idx, responses, calls, judge, evaluation, final_answer,
      result, synth, file>>

sessionVars == <<files, since_clear, line>>

storeVars == <<store, systems, threads, chat_history>>

harnessVars == <<rag, conf, store, systems, threads, chat_history>>

vars == <<hist, last, expected, ops, pc, question, idx, responses, calls,
          judge, evaluation, final_answer, result, rounds, synth, file,
          files, since_clear, rag, conf, line, store, systems, threads,
          chat_history>>

NoCall == [op |-> "none", agent |-> "none"]

NoSynth ==
    [called |-> FALSE, evaluation |-> NoValue, items |-> <<>>,
     prompt |-> <<>>, failed |-> FALSE, msg |-> <<>>]

NoJudge ==
    [called |-> FALSE, read_failed |-> FALSE, invoked |-> FALSE,
     prompt |-> <<>>, reply |-> NoReply, failed |-> FALSE, raised |-> FALSE]

\* MagiSystem.__init__: a fresh session id, so every history starts empty
Init ==
    /\ hist = [t \in Tables |-> <<>>]
    /\ last = NoCall
    /\ expected = [n \in AgentNames |-> <<>>]
    /\ ops = 0
    /\ pc = "idle"
    /\ question = <<>>
    /\ idx = 1
    /\ responses = <<>>
    /\ calls = <<>>
    /\ judge = NoJudge
    /\ evaluation = NoValue
    /\ final_answer = <<>>
    /\ result = NoValue
    /\ rounds = 0
    /\ synth = NoSynth
    /\ file = NoValue
    /\ files = 0
    /\ since_clear = -1
    /\ line = NoLine
    /\ store = EmptyStore
    /\ systems = <<>>
    /\ threads = <<>>
    /\ chat_history = <<>>
    /\ rag = NoValue
    /\ conf = NoValue

\* The turns a respond call is expected to add: the question and the answer
\* it returned, when it returned success
RespondExpected(name, query, r) ==
    IF ~r.raised /\ r.value.success
    THEN [expected EXCEPT ![name] =
            @ \o <<[role |-> "human", content |-> query],
                   [role |-> "ai", content |-> r.value.response]>>]
    ELSE expected

\* One call of MagiAgent.respond on agent name; keep says whether the
\* exchange the model returned is kept in the record of the call
respond_call(name, query, keep) ==
    \E fail \in RespondFails, m \in ErrMsgs, x \in Exchanges(query) :
        LET h == hist[table_name(name)]
            r == respond(name, h, query, fail, m, x)
            produced ==
                IF fail \notin {"read", "invoke"} /\ HasAi(x)
                THEN {final_ai_response(x, Len(x)).text} ELSE {}
            error ==
                IF fail \in {"read", "invoke"} THEN {m}
                ELSE IF ~HasAi(x) THEN {StopIterationMsg}
                ELSE IF fail \in {"add_user", "add_ai"} THEN {m}
                ELSE {}
        IN  /\ hist' = [hist EXCEPT ![table_name(name)] = r.h]
            /\ last' = [op |-> "respond", agent |-> name, query |-> query,
                        fail |-> fail, before |-> h, out |-> r,
                        exchange |-> IF keep THEN x ELSE <<>>,
                        produced |-> produced, error |-> error]
            /\ expected' = RespondExpected(name, query, r)

RespondCall(name, query) == respond_call(name, query, FALSE)

\* One call of MagiAgent.clear_memory on agent name
ClearCall(name) ==
    /\ hist' = [hist EXCEPT ![table_name(name)] = clear_memory(@)]
    /\ last' = [op |-> "clear", agent |-> name,
                before |-> hist[table_name(name)]]
    /\ expected' = [expected EXCEPT ![name] = <<>>]

\* ------------- AgentSpec: any sequence of direct calls on one of the agents
\* the agent under test is the one the first call is made on
SameAgent(name) == last.op = "none" \/ last.agent = name

AgentRespond ==
    /\ ops < MaxOps
    /\ \E name \in AgentNames, query \in Questions :
          SameAgent(name) /\ RespondCall(name, query)
    /\ ops' = ops + 1
    /\ UNCHANGED <<roundVars, rounds, sessionVars, harnessVars>>

AgentClear ==
    /\ ops < MaxOps
    /\ \E name \in AgentNames : SameAgent(name) /\ ClearCall(name)
    /\ ops' = ops + 1
    /\ UNCHANGED <<roundVars, rounds, sessionVars, harnessVars>>

AgentNext == AgentRespond \/ AgentClear

AgentSpec == Init /\ [][AgentNext]_vars

\* ---------- ExchangeSpec: respond calls seen with the exchange they ran on
MaxExchangeCalls == 2

ExchangeRespond ==
    /\ ops < MaxExchangeCalls
    /\ \E name \in AgentNames, query \in Questions :
          SameAgent(name) /\ respond_call(name, query, TRUE)
    /\ ops' = ops + 1
    /\ UNCHANGED <<roundVars, rounds, sessionVars, harnessVars>>

ExchangeSpec == Init /\ [][ExchangeRespond]_vars

\* ------------------------------------------ process_magi_decision, by steps
\* evaluation = self.evaluate_responses(question, responses)
Evaluate(replies) ==
    /\ pc = "evaluate"
    /\ \E fail \in EvaluateFails, m \in ErrMsgs, reply \in replies :
          LET r == evaluate_responses(responses, hist[DeliberatorTable],
                                      fail, m, reply)
          IN  /\ evaluation' = r.value
              /\ judge' = [called |-> TRUE,
                           read_failed |-> fail = "read",
                           invoked |-> fail # "read",
                           prompt |-> formatted_responses(responses),
                           reply |-> IF fail = "read" THEN NoReply ELSE reply,
                           failed |-> evaluate_try(hist[DeliberatorTable],
                                                   fail, m, reply).raised,
                           raised |-> r.raised]
              /\ pc' = IF r.raised THEN "raised" ELSE "scores"
    /\ UNCHANGED <<agentVars, ops, question, idx, responses, calls,
                   final_answer, result, rounds>>
    /\ UNCHANGED <<synth, file, sessionVars, harnessVars>>

\* "if evaluation.evaluations:" and the prints: AttributeError on None
PrintScores ==
    /\ pc = "scores"
    /\ pc' = IF IsNone(evaluation) THEN "raised" ELSE "synthesise"
    /\ UNCHANGED <<agentVars, ops, question, idx, responses, calls, judge,
                   evaluation, final_answer, result, rounds>>
    /\ UNCHANGED <<synth, file, sessionVars, harnessVars>>

\* final_answer = self.synthesise_final_answer(question, responses, evaluation)
Synthesise ==
    /\ pc = "synthesise"
    /\ \E reply \in SynthReplies :
          /\ final_answer' = synthesise_final_answer(reply)
          /\ synth' = [called |-> TRUE,
                       evaluation |-> evaluation,
                       items |-> scored_items(responses, evaluation),
                       prompt |-> scored_responses(responses, evaluation),
                       failed |-> reply.kind = "raise",
                       msg |-> reply.msg]
    /\ pc' = "record"
    /\ UNCHANGED <<agentVars, ops, question, idx, responses, calls, judge,
                   evaluation, result, rounds>>
    /\ UNCHANGED <<file, sessionVars, harnessVars>>

\* add_user_message / add_ai_message, FinalResult, and query_magi's return
Record ==
    /\ pc = "record"
    /\ \E fail \in RecordFails, m \in ErrMsgs :
          LET r == record_final_answer(hist[DeliberatorTable], question,
                                       final_answer, fail, m)
          IN  /\ hist' = [hist EXCEPT ![DeliberatorTable] = r.h]
              /\ pc' = IF r.raised THEN "raised" ELSE "done"
              /\ result' =
                    IF r.raised THEN NoValue
                    ELSE [question |-> question, timestamp |-> rounds,
                          agent_responses |-> responses,
                          evaluation |-> evaluation,
                          final_answer |-> final_answer]
    /\ UNCHANGED <<last, expected, ops, question, idx, responses, calls,
                   judge, evaluation, final_answer, rounds>>
    /\ UNCHANGED <<synth, file, sessionVars, harnessVars>>

\* ------------------------------------------------------------- MagiSystem
agents == get_all_personalities

\* between two inputs of the front end: at the start, after the result file
\* was written, after an exception was printed
Resting == pc \in {"idle", "saved", "raised"}

\* query_magi is entered: responses = []
query_magi_entry(query) ==
    /\ Resting
    /\ rounds < MaxRounds
    /\ question' = query
    /\ rounds' = rounds + 1
    /\ pc' = "respond"
    /\ idx' = 1
    /\ responses' = <<>>
    /\ calls' = <<>>
    /\ judge' = NoJudge
    /\ evaluation' = NoValue
    /\ final_answer' = <<>>
    /\ result' = NoValue
    /\ synth' = NoSynth
    /\ file' = NoValue
    /\ since_clear' = IF since_clear < 0 THEN since_clear ELSE since_clear + 1
    /\ UNCHANGED <<agentVars, ops, files, harnessVars>>

QueryStart ==
    /\ \E q \in Questions : query_magi_entry(q)
    /\ UNCHANGED line

\* main.py: any other line is a question for query_magi
MainQuery ==
    \E raw \in InputLines :
        /\ main_command(raw) = "query"
        /\ line' = raw
        /\ query_magi_entry(strip(raw))

\* the for loop goes on to the next agent whatever the answer was
next_index_abort(i, response) ==
    IF response.success THEN i + 1 ELSE Len(agents) + 1

next_index(i, response) == i + 1

\* the exchanges the orchestrator runs are explored with: each persona's
\* model either sends no ai message or one ai message with its own text
SystemAnswer(name) == IF name = "BALTHASAR" THEN <<"B">> ELSE <<"A">>

SystemExchanges(name, query) ==
    {x \in Exchanges(query) :
        Len(x) = 1 \/ (Len(x) = 2 /\ x[2] = Msg("ai", SystemAnswer(name)))}

\* one iteration of "for agent in self.agents"
QueryAgent ==
    /\ pc = "respond"
    /\ idx <= Len(agents)
    /\ \E fail \in RespondFails, m \in ErrMsgs,
          x \in SystemExchanges(agents[idx], question) :
          LET name == agents[idx]
              r == respond(name, hist[table_name(name)], question, fail, m, x)
          IN  /\ hist' = [hist EXCEPT ![table_name(name)] = r.h]
              /\ expected' = RespondExpected(name, question, r)
              /\ calls' = Append(calls, name)
              /\ IF r.raised
                 THEN /\ pc' = "raised"
                      /\ UNCHANGED <<idx, responses>>
                 ELSE /\ responses' = Append(responses, r.value)
                      /\ idx' = next_index(idx, r.value)
                      /\ pc' = IF idx' > Len(agents) THEN "evaluate"
                               ELSE "respond"
    /\ UNCHANGED <<last, ops, question, judge, evaluation, final_answer,
                   result, rounds>>
    /\ UNCHANGED <<synth, file, sessionVars, harnessVars>>

\* clear_all_memory
clear_all_memory ==
    /\ Resting
    /\ rounds < MaxRounds
    /\ rounds' = rounds + 1
    /\ hist' = [t \in Tables |-> clear_memory(hist[t])]
    /\ expected' = [n \in AgentNames |-> <<>>]
    /\ since_clear' = 0
    /\ UNCHANGED <<last, ops, roundVars, files, harnessVars>>

ClearAll == clear_all_memory /\ UNCHANGED line

\* main.py: clear wipes the memory of every agent and of the deliberator
MainClear ==
    /\ \E raw \in InputLines : main_command(raw) = "clear" /\ line' = raw
    /\ clear_all_memory

\* main.py: quit, exit or q ends the loop
Quit ==
    /\ Resting
    /\ rounds < MaxRounds
    /\ \E raw \in InputLines : main_command(raw) = "break" /\ line' = raw
    /\ rounds' = rounds + 1
    /\ pc' = "exited"
    /\ UNCHANGED <<agentVars, ops, question, idx, responses, calls, judge,
                   evaluation, final_answer, result, synth, file,
                   files, since_clear, harnessVars>>

\* main.py: a line of blanks, or no text at all, goes back to the prompt
EmptyInput ==
    /\ Resting
    /\ rounds < MaxRounds
    /\ \E raw \in InputLines : main_command(raw) = "continue" /\ line' = raw
    /\ rounds' = rounds + 1
    /\ UNCHANGED <<agentVars, ops, roundVars, files, since_clear,
                   harnessVars>>

\* the judge replies the orchestrator runs are explored with: at most one
\* evaluation, of the first agent or of an agent that does not exist
SystemJudgeReplies ==
    {r \in JudgeReplies :
        /\ r.kind \in {"raise", "none", "data"}
        /\ Len(r.data.evaluations) <= 1
        /\ r.kind = "data" => r.data.synthesis # <<>>
        /\ \A i \in 1..Len(r.data.evaluations) :
              /\ r.data.evaluations[i].agent \in {PERSONALITIES[1], "GHOST"}
              /\ r.data.evaluations[i].score >= ScoreMin}

SystemEvaluate == Evaluate(SystemJudgeReplies)

\* ----------------------------- EvalSpec: evaluate_responses on any answers
Answers(name) ==
    {[agent |-> name, response |-> t, success |-> TRUE] : t \in AnswerTexts}
    \cup {respond_except(name, m) : m \in ErrMsgs \cup {StopIterationMsg}}

\* answer lists in registration order, of every length up to the council's
InputLists ==
    UNION {{s \in [1..n -> UNION {Answers(a) : a \in AgentNames}] :
               \A i \in 1..n : s[i].agent = PERSONALITIES[i]} :
           n \in 0..Len(PERSONALITIES)}

EvalInit ==
    /\ hist = [t \in Tables |-> <<>>]
    /\ last = NoCall
    /\ expected = [n \in AgentNames |-> <<>>]
    /\ ops = 0
    /\ pc = "evaluate"
    /\ question \in Questions
    /\ idx = 1
    /\ responses \in InputLists
    /\ calls = <<>>
    /\ judge = NoJudge
    /\ evaluation = NoValue
    /\ final_answer = <<>>
    /\ result = NoValue
    /\ rounds = 0
    /\ synth = NoSynth
    /\ file = NoValue
    /\ files = 0
    /\ since_clear = -1
    /\ line = NoLine
    /\ store = EmptyStore
    /\ systems = <<>>
    /\ threads = <<>>
    /\ chat_history = <<>>
    /\ rag = NoValue
    /\ conf = NoValue

EvalEvaluate == Evaluate(JudgeReplies)

EvalNext == EvalEvaluate \/ PrintScores \/ Synthesise

EvalSpec == EvalInit /\ [][EvalNext]_vars

\* ---------------------------------------------- persisting a round record
\* Python values, by type: json.dump tells them apart
PyStr(s) == [py |-> "str", v |-> s]
PyBool(b) == [py |-> "bool", v |-> b]
PyInt(n) == [py |-> "int", v |-> n]
PyList(s) == [py |-> "list", v |-> s]
PyDict(d) == [py |-> "dict", v |-> d]
\* an instance of a pydantic BaseModel with fields d
PyModel(d) == [py |-> "model", v |-> d]

\* datetime.now().isoformat()
isoformat(t) == <<"2025-01-01T00:00:", ToString(t)>>

\* the dict query_magi returns: "evaluation" is the DeliberationResult
round_record(r) ==
    PyDict([question |-> PyStr(r.question),
            timestamp |-> PyStr(isoformat(r.timestamp)),
            agent_responses |->
                PyList([i \in 1..Len(r.agent_responses) |->
                    PyDict([agent |-> PyStr(r.agent_responses[i].agent),
                            response |->
                                PyStr(r.agent_responses[i].response),
                            success |->
                                PyBool(r.agent_responses[i].success)])]),
            evaluation |->
                PyModel([evaluations |->
                            PyList([i \in 1..Len(r.evaluation.evaluations) |->
                                PyModel([agent |-> PyStr(
                                            r.evaluation.evaluations[i].agent),
                                         score |-> PyInt(
                                            r.evaluation.evaluations[i].score),
                                         reasoning |-> PyStr(
                                            r.evaluation.evaluations[i]
                                                .reasoning)])]),
                         synthesis |-> PyStr(r.evaluation.synthesis),
                         voting_result |->
                            PyStr(r.evaluation.voting_result)]),
            final_answer |-> PyStr(r.final_answer)])

\* BaseModel.model_dump(): the model and the models nested in it, as dicts
RECURSIVE model_dump(_)
model_dump(v) ==
    CASE v.py \in {"model", "dict"} ->
            PyDict([k \in DOMAIN v.v |-> model_dump(v.v[k])])
      [] v.py = "list" -> PyList([i \in DOMAIN v.v |-> model_dump(v.v[i])])
      [] OTHER -> v

\* json: what the encoder accepts, the document it writes, and json.load
RECURSIVE serializable(_)
serializable(v) ==
    CASE v.py \in {"str", "bool", "int"} -> TRUE
      [] v.py \in {"list", "dict"} ->
            \A k \in DOMAIN v.v : serializable(v.v[k])
      [] OTHER -> FALSE

RECURSIVE encode(_)
encode(v) ==
    CASE v.py = "str" -> [json |-> "string", v |-> v.v]
      [] v.py = "bool" -> [json |-> IF v.v THEN "true" ELSE "false", v |-> 0]
      [] v.py = "int" -> [json |-> "number", v |-> v.v]
      [] v.py = "list" ->
            [json |-> "array", v |-> [i \in DOMAIN v.v |-> encode(v.v[i])]]
      [] v.py = "dict" ->
            [json |-> "object", v |-> [k \in DOMAIN v.v |-> encode(v.v[k])]]

RECURSIVE json_load(_)
json_load(d) ==
    CASE d.json = "string" -> PyStr(d.v)
      [] d.json = "true" -> PyBool(TRUE)
      [] d.json = "false" -> PyBool(FALSE)
      [] d.json = "number" -> PyInt(d.v)
      [] d.json = "array" ->
            PyList([i \in DOMAIN d.v |-> json_load(d.v[i])])
      [] d.json = "object" ->
            PyDict([k \in DOMAIN d.v |-> json_load(d.v[k])])

NotSerializableMsg == <<"Object of type DeliberationResult is not JSON serializable">>

\* with open(name, "w") as f: json.dump(value, f, indent=2). The file exists
\* from open() on; it holds a whole document only if the encoder finishes
json_dump(name, value, by) ==
    IF serializable(value)
    THEN Returned([name |-> name, by |-> by, complete |-> TRUE,
                   doc |-> encode(value)], <<>>)
    ELSE Raised(NotSerializableMsg,
                [name |-> name, by |-> by, complete |-> FALSE,
                 doc |-> encode(PyDict(<<>>))])

\* result['timestamp'].replace(':', '-')
RECURSIVE replace_colons(_)
replace_colons(s) ==
    IF s = <<>> THEN <<>>
    ELSE <<IF s[1] = "2025-01-01T00:00:" THEN "2025-01-01T00-00-" ELSE s[1]>>
         \o replace_colons(Tail(s))

\* main.py: result_dict and the file of the round
result_dict(r) ==
    LET d == round_record(r).v IN
    PyDict([question |-> d.question,
            timestamp |-> d.timestamp,
            agent_responses |-> d.agent_responses,
            evaluation |-> model_dump(d.evaluation),
            final_answer |-> d.final_answer])

main_save(r) ==
    json_dump(<<"results/results_">> \o replace_colons(isoformat(r.timestamp))
                  \o <<".json">>,
              result_dict(r), "main")

\* example.py: json.dump(result, f, indent=2) on what query_magi returned
ExampleFunctions == {"run_single_query", "run_example_queries"}

example_save(r, fn) ==
    json_dump(IF fn = "run_single_query"
              THEN <<"results/example_result.json">>
              ELSE <<"results/results_">> \o isoformat(r.timestamp)
                       \o <<".json">>,
              round_record(r), fn)

\* the loop of main.py after query_magi returned
SaveResult ==
    /\ pc = "done"
    /\ LET w == main_save(result)
       IN  /\ file' = IF w.raised THEN w.h ELSE w.value
           /\ pc' = IF w.raised THEN "raised" ELSE "saved"
    /\ files' = files + 1
    /\ UNCHANGED <<agentVars, ops, question, idx, responses, calls, judge,
                   evaluation, final_answer, result, rounds, synth,
                   since_clear, line, harnessVars>>

\* run_single_query / run_example_queries after query_magi returned
ExampleSave ==
    /\ pc = "done"
    /\ \E fn \in ExampleFunctions :
          LET w == example_save(result, fn)
          IN  /\ file' = IF w.raised THEN w.h ELSE w.value
              /\ pc' = IF w.raised THEN "raised" ELSE "saved"
    /\ files' = files + 1
    /\ UNCHANGED <<agentVars, ops, question, idx, responses, calls, judge,
                   evaluation, final_answer, result, rounds, synth,
                   since_clear, line, harnessVars>>

\* -------------------- Spec: the inputs and rounds of a session of main.py
Next ==
    \/ QueryStart
    \/ QueryAgent
    \/ SystemEvaluate
    \/ PrintScores
    \/ Synthesise
    \/ Record
    \/ SaveResult
    \/ ClearAll

Spec == Init /\ [][Next]_vars

\* ------------------------- MainSpec: the loop of main.py reads input lines
MainNext ==
    \/ MainQuery
    \/ MainClear
    \/ Quit
    \/ EmptyInput
    \/ QueryAgent
    \/ SystemEvaluate
    \/ PrintScores
    \/ Synthesise
    \/ Record
    \/ SaveResult

MainSpec == Init /\ [][MainNext]_vars

\* ------------------ WebSpec: the query path of the page of streamlit_app.py
MaxWebRounds == 1

NotSubscriptableMsg == <<"'FinalResult' object is not subscriptable">>

NoGetMsg == <<"'DeliberationResult' object has no attribute 'get'">>

\* what process_magi_decision returns:
\* FinalResult(evaluation=evaluation, final_answer=final_answer)
FinalResult(r) ==
    PyModel([evaluation |-> round_record(r).v.evaluation,
             final_answer |-> round_record(r).v.final_answer])

\* v[key]: a dict has items, a pydantic model has no __getitem__
getitem(v, key) ==
    IF v.py = "dict" THEN Returned(v.v[key], <<>>)
    ELSE Raised(NotSubscriptableMsg, <<>>)

\* display_deliberation: evaluation.get("evaluations") is its first use of
\* the argument
display_deliberation(ev) ==
    IF ev.py = "dict" THEN Returned(NoValue, <<>>)
    ELSE Raised(NoGetMsg, <<>>)

\* datetime.now().strftime("%Y-%m-%d %H:%M:%S")
strftime(t) == <<"2025-01-01 00:00:", ToString(t)>>

\* the lines of the try block after process_magi_decision returned result;
\* h is st.session_state.chat_history
web_query_try(res, query, answers, t, h) ==
    LET shown == getitem(res, "evaluation") IN
    IF shown.raised THEN Raised(shown.msg, h)
    ELSE LET d == display_deliberation(shown.value) IN
    IF d.raised THEN Raised(d.msg, h)
    ELSE LET answer == getitem(res, "final_answer") IN
    IF answer.raised THEN Raised(answer.msg, h)
    ELSE Returned(NoValue,
                  Append(h, [question |-> query,
                             timestamp |-> strftime(t),
                             agent_responses |-> answers,
                             evaluation |-> shown.value,
                             final_answer |-> answer.value]))

\* the form is submitted with a question: responses = []
WebSubmit ==
    /\ rounds < MaxWebRounds
    /\ \E q \in Questions : query_magi_entry(q)
    /\ UNCHANGED line

\* the page shows the result and appends the chat entry; the except branch
\* prints the error
WebShow ==
    /\ pc = "done"
    /\ LET w == web_query_try(FinalResult(result), question, responses,
                              rounds, chat_history)
       IN  /\ chat_history' = w.h
           /\ pc' = IF w.raised THEN "raised" ELSE "shown"
    /\ UNCHANGED <<agentVars, ops, question, idx, responses, calls, judge,
                   evaluation, final_answer, result, rounds, synth, file,
                   sessionVars, rag, conf, store, systems, threads>>

WebNext ==
    \/ WebSubmit
    \/ QueryAgent
    \/ SystemEvaluate
    \/ PrintScores
    \/ Synthesise
    \/ Record
    \/ WebShow

WebSpec == Init /\ [][WebNext]_vars

\* ------------------------- SaveSpec: a front end persists any round record
SaveEvaluations(rs) ==
    {evaluate_except(rs, m) : m \in ErrMsgs}
    \cup {d \in JudgeData : validates(d) /\ Len(d.evaluations) <= 1}

SaveInit ==
    /\ hist = [t \in Tables |-> <<>>]
    /\ last = NoCall
    /\ expected = [n \in AgentNames |-> <<>>]
    /\ ops = 0
    /\ pc = "done"
    /\ question \in Questions
    /\ idx = Len(agents) + 1
    /\ responses \in {s \in InputLists : Len(s) = Len(agents)}
    /\ calls = agents
    /\ judge = NoJudge
    /\ evaluation \in SaveEvaluations(responses)
    /\ final_answer \in
          {synthesise_final_answer(reply) : reply \in SynthReplies}
    /\ rounds = 1
    /\ result = [question |-> question, timestamp |-> rounds,
                 agent_responses |-> responses, evaluation |-> evaluation,
                 final_answer |-> final_answer]
    /\ synth = NoSynth
    /\ file = NoValue
    /\ files = 0
    /\ since_clear = -1
    /\ line = NoLine
    /\ store = EmptyStore
    /\ systems = <<>>
    /\ threads = <<>>
    /\ chat_history = <<>>
    /\ rag = NoValue
    /\ conf = NoValue

SaveNext == SaveResult \/ ExampleSave

SaveSpec == SaveInit /\ [][SaveNext]_vars

\* ------------------------------------------------------------- RAGTool
MaxDocs == 3

\* what similarity_search can return: documents whose metadata has a source,
\* has none, or cannot be read
DocSources == {"notes.md", "absent", "unreadable"}
Docs == [page_content : {"c1", "c2"}, source : DocSources]
DocLists == UNION {[1..n -> Docs] : n \in 0..MaxDocs}
SearchOutcomes ==
    {[kind |-> "raise", msg |-> m, docs |-> <<>>] : m \in ErrMsgs}
    \cup {[kind |-> "docs", msg |-> <<>>, docs |-> ds] : ds \in DocLists}

NotAvailableText ==
    <<"Knowledge base is not available. Please ingest documents first.">>
NoResultsText == <<"No relevant documents found in the knowledge base.">>
MetadataMsg == <<"'NoneType' object has no attribute 'get'">>

\* doc.metadata.get("source", "Unknown")
doc_source(doc) == IF doc.source = "absent" THEN "Unknown" ELSE doc.source

\* results.append(f"[Document {i} - Source: {source}]\n{content}\n")
document_block(i, doc) ==
    <<"[Document ", ToString(i), " - Source: ", doc_source(doc), "]\n",
      doc.page_content, "\n">>

\* "\n".join(results)
RECURSIVE join_results(_)
join_results(results) ==
    IF results = <<>> THEN <<>>
    ELSE IF Len(results) = 1 THEN results[1]
    ELSE results[1] \o <<"\n">> \o join_results(Tail(results))

\* the try block of RAGTool.search
search_try(outcome) ==
    IF outcome.kind = "raise" THEN Raised(outcome.msg, <<>>)
    ELSE IF outcome.docs = <<>> THEN Returned(NoResultsText, <<>>)
    ELSE IF \E i \in 1..Len(outcome.docs) :
                outcome.docs[i].source = "unreadable"
    THEN Raised(MetadataMsg, <<>>)
    ELSE Returned(join_results([i \in 1..Len(outcome.docs) |->
                                  document_block(i, outcome.docs[i])]), <<>>)

\* the search without its except clause
search_uncaught(vectorstore, outcome) ==
    IF vectorstore = "None" THEN Returned(NotAvailableText, <<>>)
    ELSE search_try(outcome)

\* RAGTool.search
search(vectorstore, outcome) ==
    IF vectorstore = "None" THEN Returned(NotAvailableText, <<>>)
    ELSE LET r == search_try(outcome) IN
         IF r.raised
         THEN Returned(<<"Error searching knowledge base: ">> \o r.msg, <<>>)
         ELSE r

\* ------------------------------ RagSpec: a RAGTool is built and searched
RagInit ==
    /\ hist = [t \in Tables |-> <<>>]
    /\ last = NoCall
    /\ expected = [n \in AgentNames |-> <<>>]
    /\ ops = 0
    /\ pc = "idle"
    /\ question = <<>>
    /\ idx = 1
    /\ responses = <<>>
    /\ calls = <<>>
    /\ judge = NoJudge
    /\ evaluation = NoValue
    /\ final_answer = <<>>
    /\ result = NoValue
    /\ rounds = 0
    /\ synth = NoSynth
    /\ file = NoValue
    /\ files = 0
    /\ since_clear = -1
    /\ line = NoLine
    /\ store = EmptyStore
    /\ systems = <<>>
    /\ threads = <<>>
    /\ chat_history = <<>>
    /\ rag = NoValue
    /\ conf = NoValue

NoSearch == [kind |-> "unsearched", msg |-> <<>>, docs |-> <<>>]

\* RAGTool.__init__: Chroma(...) in a try, self.vectorstore = None on failure
RagConstruct ==
    /\ rag = NoValue
    /\ \E chroma_raises \in BOOLEAN :
          rag' = [vectorstore |-> IF chroma_raises THEN "None" ELSE "Chroma",
                  searches |-> 0, outcome |-> NoSearch,
                  out |-> Returned(<<>>, <<>>)]
    /\ UNCHANGED <<agentVars, ops, roundVars, rounds, sessionVars, conf, storeVars>>

\* one call of RAGTool.search
RagSearch ==
    /\ rag # NoValue
    /\ rag.searches < MaxOps
    /\ \E outcome \in SearchOutcomes :
          rag' = [rag EXCEPT !.searches = @ + 1,
                             !.outcome = outcome,
                             !.out = search(rag.vectorstore, outcome)]
    /\ UNCHANGED <<agentVars, ops, roundVars, rounds, sessionVars, conf, storeVars>>

RagNext == RagConstruct \/ RagSearch

RagSpec == RagInit /\ [][RagNext]_vars

\* --------------------------------- ConfigSpec: MagiSystem is constructed
\* values of LLM_PROVIDER: the two documented ones, another spelling of
\* one of them, and a provider the code has no branch for
Providers == {"lm_studio", "gemini", "GEMINI", "ollama"}

ApiKeyRequiredMsg ==
    <<"Gemini API key required. Set GEMINI_API_KEY environment variable.">>

\* MagiSystem.__init__: provider-specific defaults
provider_defaults(provider, gemini_key) ==
    IF lower(provider) = "gemini"
    THEN [model_name |-> "GEMINI_MODEL", llm_base_url |-> "None",
          api_key |-> IF gemini_key THEN "GEMINI_API_KEY" ELSE "None"]
    ELSE [model_name |-> "LM_STUDIO_MODEL", llm_base_url |-> "LM_STUDIO_URL",
          api_key |-> "LM_STUDIO_API_KEY"]

\* "Initialise LLM based on provider" of MagiAgent and DeliberatorAgent
initialise_llm(llm_provider, d) ==
    IF lower(llm_provider) = "gemini"
    THEN IF d.api_key = "None" THEN Raised(ApiKeyRequiredMsg, <<>>)
         ELSE Returned([class |-> "ChatGoogleGenerativeAI",
                        model |-> d.model_name, endpoint |-> "google",
                        api_key |-> d.api_key], <<>>)
    ELSE Returned([class |-> "ChatOpenAI", model |-> d.model_name,
                   endpoint |-> d.llm_base_url, api_key |-> d.api_key], <<>>)

RagInitMsg == <<"embeddings unavailable">>

\* get_rag_tool: RAGTool(...) then create_tool(), the Tool named
\* knowledge_base_search; anything RAGTool.__init__ does not catch is raised
get_rag_tool(rag_raises) ==
    IF rag_raises THEN Raised(RagInitMsg, <<>>)
    ELSE Returned("knowledge_base_search", <<>>)

\* the tool setup without its try
agent_tools_uncaught(enable_search, enable_rag, rag_raises) ==
    LET tools == IF enable_search THEN <<"DuckDuckGoSearchRun">> ELSE <<>>
        rag_tool == get_rag_tool(rag_raises)
    IN  IF ~enable_rag THEN Returned(tools, <<>>)
        ELSE IF rag_tool.raised THEN Raised(rag_tool.msg, <<>>)
        ELSE Returned(Append(tools, rag_tool.value), <<>>)

\* self.tools of a MagiAgent: get_rag_tool may raise, which is printed
agent_tools(enable_search, enable_rag, rag_raises) ==
    LET tools == IF enable_search THEN <<"DuckDuckGoSearchRun">> ELSE <<>>
        rag_tool == get_rag_tool(rag_raises)
    IN  IF ~enable_rag THEN Returned(tools, <<>>)
        ELSE IF rag_tool.raised THEN Returned(tools, <<>>)
        ELSE Returned(Append(tools, rag_tool.value), <<>>)

ConfigInit ==
    /\ hist = [t \in Tables |-> <<>>]
    /\ last = NoCall
    /\ expected = [n \in AgentNames |-> <<>>]
    /\ ops = 0
    /\ pc = "idle"
    /\ question = <<>>
    /\ idx = 1
    /\ responses = <<>>
    /\ calls = <<>>
    /\ judge = NoJudge
    /\ evaluation = NoValue
    /\ final_answer = <<>>
    /\ result = NoValue
    /\ rounds = 0
    /\ synth = NoSynth
    /\ file = NoValue
    /\ files = 0
    /\ since_clear = -1
    /\ line = NoLine
    /\ store = EmptyStore
    /\ systems = <<>>
    /\ threads = <<>>
    /\ chat_history = <<>>
    /\ rag = NoValue
    /\ conf \in [provider : Providers, gemini_key : BOOLEAN,
                 enable_search : BOOLEAN, enable_rag : BOOLEAN,
                 phase : {"agents"}, built : {<<>>}, error : {<<>>}]

\* one MagiAgent(...) of the list comprehension of MagiSystem.__init__
ConstructAgent ==
    /\ conf.phase = "agents"
    /\ \E rag_raises \in BOOLEAN :
          LET name == agents[Len(conf.built) + 1]
              llm == initialise_llm(conf.provider,
                        provider_defaults(conf.provider, conf.gemini_key))
              tools == agent_tools(conf.enable_search, conf.enable_rag,
                                   rag_raises)
          IN  conf' =
                IF llm.raised
                THEN [conf EXCEPT !.phase = "aborted", !.error = llm.msg]
                ELSE IF tools.raised
                THEN [conf EXCEPT !.phase = "aborted", !.error = tools.msg]
                ELSE [conf EXCEPT
                        !.built = Append(@,
                            [name |-> name, llm |-> llm.value,
                             tools |-> tools.value,
                             rag_raised |-> conf.enable_rag /\ rag_raises]),
                        !.phase = IF Len(conf.built) + 1 = Len(agents)
                                  THEN "deliberator" ELSE "agents"]
    /\ UNCHANGED <<agentVars, ops, roundVars, rounds, sessionVars, rag, storeVars>>

\* self.deliberator = DeliberatorAgent(...)
ConstructDeliberator ==
    /\ conf.phase = "deliberator"
    /\ LET llm == initialise_llm(conf.provider,
                     provider_defaults(conf.provider, conf.gemini_key))
       IN  conf' =
             IF llm.raised
             THEN [conf EXCEPT !.phase = "aborted", !.error = llm.msg]
             ELSE [conf EXCEPT
                     !.built = Append(@, [name |-> "DELIBERATOR",
                                          llm |-> llm.value,
                                          tools |-> <<>>]),
                     !.phase = "ready"]
    /\ UNCHANGED <<agentVars, ops, roundVars, rounds, sessionVars, rag, storeVars>>

ConfigNext == ConstructAgent \/ ConstructDeliberator

ConfigSpec == ConfigInit /\ [][ConfigNext]_vars

\* ------------- SessionSpec: MagiSystem instances that share the database
MaxSystems == 2
MaxSessionOps == 2

\* a session id that is the same for every system
uuid_fixed(n) == [uuid |-> 0]

\* str(uuid.uuid4()): the n-th identifier drawn differs from the earlier ones
uuid4(n) == [uuid |-> n]

SessionIds == {uuid4(n) : n \in 1..MaxSystems}

\* MagiSystem.__init__: the agents and the deliberator are given the
\* session id of the system; each opens its own table
new_system(sid) ==
    [session_id |-> sid,
     agents |-> [i \in 1..Len(agents) |->
                    [name |-> agents[i], session_id |-> sid,
                     table |-> table_name(agents[i])]],
     deliberator |-> [session_id |-> sid, table |-> DeliberatorTable]]

SessionCall(op, name, sid) ==
    [op |-> op, agent |-> name, session_id |-> sid, before |-> store]

\* MagiSystem()
NewSystem ==
    /\ Len(systems) < MaxSystems
    /\ LET sid == uuid4(Len(systems) + 1)
       IN  /\ systems' = Append(systems, new_system(sid))
           /\ last' = SessionCall("construct", "none", sid)
    /\ UNCHANGED <<hist, expected, ops, roundVars, rounds, sessionVars, rag,
                   conf, store, threads, chat_history>>

\* agent.respond(query) on an agent of one of the systems
SessionRespond ==
    /\ ops < MaxSessionOps
    /\ \E s \in 1..Len(systems), i \in 1..Len(agents), query \in Questions,
          fail \in RespondFails, m \in ErrMsgs :
          \E x \in SystemExchanges(agents[i], query) :
              LET a == systems[s].agents[i]
                  h == messages(store, a.table, a.session_id)
                  r == respond(a.name, h, query, fail, m, x)
              IN  /\ store' = store_add(store, a.table, a.session_id,
                                        SubSeq(r.h, Len(h) + 1, Len(r.h)))
                  /\ last' = SessionCall("respond", a.name, a.session_id)
    /\ ops' = ops + 1
    /\ UNCHANGED <<hist, expected, roundVars, rounds, sessionVars, rag, conf,
                   systems, threads, chat_history>>

\* agent.clear_memory() on an agent of one of the systems
SessionClear ==
    /\ ops < MaxSessionOps
    /\ \E s \in 1..Len(systems), i \in 1..Len(agents) :
          LET a == systems[s].agents[i]
          IN  /\ store' = store_clear(store, a.table, a.session_id)
              /\ last' = SessionCall("clear", a.name, a.session_id)
    /\ ops' = ops + 1
    /\ UNCHANGED <<hist, expected, roundVars, rounds, sessionVars, rag, conf,
                   systems, threads, chat_history>>

\* deliberator.process_magi_decision(question, responses) of one of the
\* systems: it reads the history, and writes it after the synthesis unless
\* it raised before (evaluation None)
SessionProcess ==
    /\ ops < MaxSessionOps
    /\ \E s \in 1..Len(systems), query \in Questions, reply \in SynthReplies,
          fail \in RecordFails, m \in ErrMsgs, aborted \in BOOLEAN :
          LET d == systems[s].deliberator
              h == messages(store, d.table, d.session_id)
              r == record_final_answer(h, query,
                       synthesise_final_answer(reply), fail, m)
          IN  /\ store' =
                    IF aborted THEN store
                    ELSE store_add(store, d.table, d.session_id,
                                   SubSeq(r.h, Len(h) + 1, Len(r.h)))
              /\ last' = SessionCall("process", "DELIBERATOR", d.session_id)
    /\ ops' = ops + 1
    /\ UNCHANGED <<hist, expected, roundVars, rounds, sessionVars, rag, conf,
                   systems, threads, chat_history>>

\* clear_all_memory() of one of the systems
RECURSIVE clear_tables(_, _, _)
clear_tables(st, components, k) ==
    IF k = 0 THEN st
    ELSE clear_tables(store_clear(st, components[k].table,
                                  components[k].session_id),
                      components, k - 1)

SessionClearAll ==
    /\ ops < MaxSessionOps
    /\ \E s \in 1..Len(systems) :
          LET components ==
                  Append(systems[s].agents, systems[s].deliberator)
          IN  /\ store' = clear_tables(store, components, Len(components))
              /\ last' = SessionCall("clear_all", "none",
                                     systems[s].session_id)
    /\ ops' = ops + 1
    /\ UNCHANGED <<hist, expected, roundVars, rounds, sessionVars, rag, conf,
                   systems, threads, chat_history>>

SessionNext ==
    \/ NewSystem
    \/ SessionRespond
    \/ SessionClear
    \/ SessionProcess
    \/ SessionClearAll

SessionSpec == Init /\ [][SessionNext]_vars

\* ------------- RaceSpec: respond calls that run at the same time, unlocked
MaxThreads == 2

\* a respond call about to run line 99 of magi_agent.py
new_thread(s, i, query) ==
    [system |-> s, agent |-> i, query |-> query, pc |-> "read",
     chat_history |-> <<>>, answer |-> <<>>]

thread_agent(t) == systems[t.system].agents[t.agent]

\* the calls that run at the same time ask the same question
RaceQuestions == {<<"q1">>}

\* agent.respond(query) is called on an agent of one of the systems
RaceSpawn ==
    /\ Len(threads) < MaxThreads
    /\ \E s \in 1..Len(systems), i \in 1..Len(agents),
          query \in RaceQuestions :
          threads' = Append(threads, new_thread(s, i, query))
    /\ UNCHANGED <<agentVars, ops, roundVars, rounds, sessionVars, rag, conf,
                   store, systems, chat_history>>

\* chat_history = self.message_history.messages
RaceRead ==
    /\ \E k \in 1..Len(threads) :
          /\ threads[k].pc = "read"
          /\ LET a == thread_agent(threads[k])
             IN  threads' =
                     [threads EXCEPT
                        ![k].chat_history =
                            messages(store, a.table, a.session_id),
                        ![k].pc = "invoke"]
    /\ UNCHANGED <<agentVars, ops, roundVars, rounds, sessionVars, rag, conf,
                   store, systems, chat_history>>

\* self.agent.invoke(...) and the choice of the final ai message; without
\* one the call ends in the except branch
RaceInvoke ==
    /\ \E k \in 1..Len(threads) :
          /\ threads[k].pc = "invoke"
          /\ \E x \in SystemExchanges(thread_agent(threads[k]).name,
                                       threads[k].query) :
                threads' =
                    IF HasAi(x)
                    THEN [threads EXCEPT
                            ![k].answer = final_ai_response(x, Len(x)).text,
                            ![k].pc = "add_user"]
                    ELSE [threads EXCEPT ![k].pc = "done"]
    /\ UNCHANGED <<agentVars, ops, roundVars, rounds, sessionVars, rag, conf,
                   store, systems, chat_history>>

\* self.message_history.add_user_message(query)
RaceAddUser ==
    /\ \E k \in 1..Len(threads) :
          /\ threads[k].pc = "add_user"
          /\ LET a == thread_agent(threads[k])
             IN  store' = store_add(store, a.table, a.session_id,
                                    add_user_message(<<>>, threads[k].query))
          /\ threads' = [threads EXCEPT ![k].pc = "add_ai"]
    /\ UNCHANGED <<agentVars, ops, roundVars, rounds, sessionVars, rag, conf,
                   systems, chat_history>>

\* self.message_history.add_ai_message(final_ai_response.text)
RaceAddAi ==
    /\ \E k \in 1..Len(threads) :
          /\ threads[k].pc = "add_ai"
          /\ LET a == thread_agent(threads[k])
             IN  store' = store_add(store, a.table, a.session_id,
                                    add_ai_message(<<>>, threads[k].answer))
          /\ threads' = [threads EXCEPT ![k].pc = "done"]
    /\ UNCHANGED <<agentVars, ops, roundVars, rounds, sessionVars, rag, conf,
                   systems, chat_history>>

\* the systems are constructed before the calls on them start
RaceNewSystem == threads = <<>> /\ NewSystem

RaceNext ==
    \/ RaceNewSystem
    \/ RaceSpawn
    \/ RaceRead
    \/ RaceInvoke
    \/ RaceAddUser
    \/ RaceAddAi

RaceSpec == Init /\ [][RaceNext]_vars

\* ================================================================ claims
RegistrationOrder == <<"MELCHIOR", "BALTHASAR", "CASPER">>

Collected ==
    pc \in {"evaluate", "scores", "synthesise", "record", "done", "saved"}

\* C1: in every round of query_magi, respond is called once on each agent in
\* registration order (MELCHIOR, BALTHASAR, CASPER) whatever the earlier
\* agents returned, and agent_responses has one entry per agent, in that
\* order, entry i carrying agent i's name.
C1_OneAnswerPerAgentInOrder ==
    /\ Len(calls) <= Len(RegistrationOrder)
    /\ \A i \in 1..Len(calls) : calls[i] = RegistrationOrder[i]
    /\ Collected =>
          /\ calls = RegistrationOrder
          /\ Len(responses) = Len(RegistrationOrder)
          /\ \A i \in 1..Len(responses) :
                responses[i].agent = RegistrationOrder[i]
    /\ pc = "done" =>
          /\ Len(result.agent_responses) = Len(RegistrationOrder)
          /\ \A i \in 1..Len(result.agent_responses) :
                result.agent_responses[i].agent = RegistrationOrder[i]

\* a returned round in which the first and the third agent failed and the
\* second one, queried between them, succeeded
C1_Witness ==
    /\ pc = "done"
    /\ ~result.agent_responses[1].success
    /\ result.agent_responses[2].success
    /\ ~result.agent_responses[3].success

\* C2: respond never propagates an exception: whichever external call raised
\* (history read, model invocation, selection of the last ai message, either
\* history append), it returns {agent: its name, success: false, response:
\* "Error: " + message}; a failed answer's text is non-empty and is not the
\* text of the model answer produced during that call.
C2_RespondNeverRaises ==
    last.op = "respond" =>
        /\ ~last.out.raised
        /\ last.out.value.agent = last.agent
        /\ last.error # {} =>
              \E e \in last.error :
                  last.out.value = [agent |-> last.agent,
                                    response |-> <<"Error: ">> \o e,
                                    success |-> FALSE]
        /\ ~last.out.value.success =>
              /\ last.error # {}
              /\ Len(last.out.value.response) > 0
              /\ last.out.value.response \notin last.produced

\* the model produced an answer and the append of that answer raised
C2_Witness ==
    /\ last.op = "respond"
    /\ last.fail = "add_ai"
    /\ last.produced # {}
    /\ ~last.out.value.success

\* C3: query_magi never raises because of a failure inside a Responder or the
\* Deliberator: whatever fails during the round, it returns a round record.
C3_QueryNeverRaises == pc # "raised"

\* C4: evaluate_responses never raises; with zero successful answers the judge
\* is still invoked and the result has no evaluations and a non-empty
\* synthesis.
C4_ZeroSuccessfulAnswers ==
    (judge.called /\ Successful(responses) = <<>>) =>
        /\ ~judge.raised
        /\ ~judge.read_failed => judge.invoked
        /\ ~IsNone(evaluation) =>
              /\ evaluation.evaluations = <<>>
              /\ evaluation.synthesis # <<>>

\* C5: evaluate_responses always returns a DeliberationResult, never None,
\* whatever the chain returns or raises; when the judge's output cannot be
\* turned into one, the fallback has one evaluation per successful answer, in
\* input order, with that agent's name, score 1 and a failure note, a
\* synthesis carrying the error text and voting_result "Error".
C5_AlwaysDeliberationResult ==
    judge.called =>
        /\ ~IsNone(evaluation)
        /\ judge.failed =>
              /\ Len(evaluation.evaluations) = Len(Successful(responses))
              /\ \A i \in 1..Len(evaluation.evaluations) :
                    evaluation.evaluations[i] =
                        [agent |-> Successful(responses)[i].agent,
                         score |-> 1,
                         reasoning |-> <<"Evaluation failed.">>]
              /\ evaluation.voting_result = <<"Error">>
              /\ Len(evaluation.synthesis) > 1
              /\ evaluation.synthesis[1] = "Error during evaluation: "

\* C6: a respond call that returns success=false leaves the agent's history
\* as it was before the call.
C6_FailedRespondKeepsHistory ==
    (last.op = "respond" /\ ~last.out.value.success) =>
        hist[table_name(last.agent)] = last.before

\* C7: an agent's history is, in order, the (question, answer) pairs of its
\* successful respond calls since the last clear_memory; it has even length
\* and alternates human and ai turns.
C7_HistoryIsSuccessfulPairs ==
    \A n \in AgentNames :
        LET h == hist[table_name(n)] IN
        /\ h = expected[n]
        /\ Len(h) % 2 = 0
        /\ \A i \in 1..Len(h) :
              h[i].role = IF i % 2 = 1 THEN "human" ELSE "ai"

SuccessfulNames(rs) ==
    {Successful(rs)[i].agent : i \in 1..Len(Successful(rs))}

\* C8: every evaluation returned by evaluate_responses names an agent whose
\* input answer had success=true, whatever names the judge uses.
C8_EvaluationsNameSuccessfulAgents ==
    (judge.called /\ ~IsNone(evaluation)) =>
        \A i \in 1..Len(evaluation.evaluations) :
            evaluation.evaluations[i].agent \in SuccessfulNames(responses)

\* C9: evaluate_responses never returns more evaluations than there are
\* input answers with success=true.
C9_AtMostOneEvaluationPerSuccess ==
    (judge.called /\ ~IsNone(evaluation)) =>
        Len(evaluation.evaluations) <= Len(Successful(responses))

ScoreOutOfRange(d) ==
    \E i \in 1..Len(d.evaluations) : d.evaluations[i].score \notin 1..10

\* C10: every evaluation that evaluate_responses returns has a score in
\* 1..10; a judge output with a score outside 1..10 is not returned as is.
C10_ScoresWithinRange ==
    (judge.called /\ ~IsNone(evaluation)) =>
        /\ \A i \in 1..Len(evaluation.evaluations) :
              evaluation.evaluations[i].score \in 1..10
        /\ (judge.reply.kind = "data" /\ ScoreOutOfRange(judge.reply.data))
              => evaluation # judge.reply.data

\* the judge scored a successful answer 11 and the caller got score 1
C10_Witness ==
    /\ judge.called
    /\ judge.reply.kind = "data"
    /\ \E i \in 1..Len(judge.reply.data.evaluations) :
          judge.reply.data.evaluations[i].score > 10
    /\ ~IsNone(evaluation)
    /\ Len(evaluation.evaluations) > 0
    /\ evaluation.evaluations[1].score = 1

\* C11: when the judge sends plain prose that cannot be parsed,
\* evaluate_responses returns a DeliberationResult whose synthesis is the
\* judge's raw text exactly, with one evaluation per successful input answer,
\* in order, carrying the fallback score and a generic rationale.
C11_ProseBecomesSynthesis ==
    (judge.called /\ judge.invoked /\ judge.reply.kind = "prose") =>
        /\ ~IsNone(evaluation)
        /\ evaluation.synthesis = judge.reply.msg
        /\ Len(evaluation.evaluations) = Len(Successful(responses))
        /\ \A i \in 1..Len(evaluation.evaluations) :
              /\ evaluation.evaluations[i].agent
                    = Successful(responses)[i].agent
              /\ evaluation.evaluations[i].score = FallbackScore

\* C12: when the judge sends a valid DeliberationResult wrapped in a fenced
\* block, evaluate_responses returns the enclosed evaluations, synthesis and
\* voting_result, and not the degraded fallback.
C12_FencedBlockIsExtracted ==
    (judge.called /\ judge.invoked /\ judge.reply.kind = "fenced"
        /\ validates(judge.reply.data)) =>
        evaluation = judge.reply.data

\* the successful input answer of agent name, if there is one
AnswerOf(name) ==
    {i \in 1..Len(responses) :
        responses[i].success /\ responses[i].agent = name}

IsSuffix(s, t) ==
    /\ Len(s) <= Len(t)
    /\ SubSeq(t, Len(t) - Len(s) + 1, Len(t)) = s

Occurs(s, t) ==
    \E k \in 1..(Len(t) - Len(s) + 1) : SubSeq(t, k, k + Len(s) - 1) = s

\* block b shows the agent name, then the score text, then the reasoning,
\* and ends with the response text under its "Full Response" label
BlockShows(b, name, score, reasoning, response) ==
    /\ Occurs(<<name, "\nScore: ", score>>, b)
    /\ Occurs(<<"\nReasoning: ">> \o reasoning \o <<"\nFull Response: ">>, b)
    /\ IsSuffix(<<"\nFull Response: ">> \o response, b)

\* C15: the scored blend given to the final synthesis has, when the
\* evaluation has evaluations, one block per evaluation in evaluation order,
\* pairing its score and reasoning with the response of the successful
\* answer of the same agent name, or "No response available" when there is
\* none; when it has no evaluations, one block per successful answer in
\* input order with the reasoning "Evaluation not available"; the error text
\* of a failed answer is never in the blend.
C15_ScoredBlend ==
    synth.called =>
        LET evals == evaluation.evaluations
            ok == Successful(responses)
        IN  /\ evals # <<>> =>
                  /\ Len(synth.items) = Len(evals)
                  /\ \A i \in 1..Len(evals) :
                        BlockShows(synth.items[i], evals[i].agent,
                            ToString(evals[i].score), evals[i].reasoning,
                            IF AnswerOf(evals[i].agent) # {}
                            THEN responses[CHOOSE j \in
                                    AnswerOf(evals[i].agent) : TRUE].response
                            ELSE <<"No response available">>)
            /\ evals = <<>> =>
                  /\ Len(synth.items) = Len(ok)
                  /\ \A i \in 1..Len(ok) :
                        BlockShows(synth.items[i], ok[i].agent, "N/A",
                            <<"Evaluation not available">>, ok[i].response)
            /\ synth.prompt = join_items(synth.items)
            /\ \A j \in 1..Len(responses) :
                  ~responses[j].success
                      => ~Occurs(responses[j].response, synth.prompt)

\* the judge scored a successful answer and then an agent whose answer had
\* failed: the second block says "No response available"
C15_Witness ==
    /\ synth.called
    /\ Len(responses) = 3
    /\ responses[1].success
    /\ ~responses[2].success
    /\ Len(evaluation.evaluations) = 2
    /\ evaluation.evaluations[1].agent = responses[1].agent
    /\ evaluation.evaluations[2].agent = responses[2].agent
    /\ IsSuffix(<<"No response available">>, synth.items[2])
    /\ IsSuffix(responses[1].response, synth.items[1])

SynthesisErrorText == <<"Error synthesizing answer: ">> \o synth.msg

\* C13: when formatting the voting prompt or invoking the model raises,
\* synthesise_final_answer returns "Error synthesizing answer: " followed by
\* the message of the exception, and process_magi_decision then returns a
\* FinalResult whose final_answer is that text: the round does not end in an
\* exception.
C13_SynthesisFailureIsAnswered ==
    synth.failed =>
        /\ final_answer = SynthesisErrorText
        /\ pc # "raised"
        /\ result # NoValue => result.final_answer = SynthesisErrorText

\* C14: the history of the deliberator gains the question and the final
\* answer exactly when the synthesis succeeded: a round whose synthesis
\* failed leaves it as it was before, a round whose synthesis succeeded
\* leaves it with the question turn and the final-answer turn appended.
C14_HistoryGainsPairOnSuccessOnly ==
    [][(pc = "record" /\ pc' = "done") =>
          hist'[DeliberatorTable] =
              IF synth.failed THEN hist[DeliberatorTable]
              ELSE hist[DeliberatorTable]
                   \o <<[role |-> "human", content |-> question],
                        [role |-> "ai", content |-> final_answer]>>]_vars

AllHistoriesEmpty == \A t \in Tables : hist[t] = <<>>

\* C16: after clear_all_memory returns, the history of every agent and of
\* the deliberator has zero turns, so the next respond call of each agent
\* reads zero prior turns; calling it twice in a row, or on empty histories,
\* leaves the same histories as calling it once; it can be called between
\* any two rounds.
C16_ClearAllWipesEveryHistory ==
    /\ since_clear = 0 => AllHistoriesEmpty
    /\ (since_clear = 1 /\ pc = "respond" /\ idx <= Len(agents))
          => hist[table_name(agents[idx])] = <<>>

\* a round was saved, its agents and its deliberator had stored turns, and
\* clear_all_memory then removed them
C16_Witness ==
    /\ since_clear = 0
    /\ pc = "saved"
    /\ \A i \in 1..Len(result.agent_responses) :
          result.agent_responses[i].success
    /\ ~synth.failed
    /\ AllHistoriesEmpty

\* C17: a round whose synthesis failed is still recorded: query_magi returns
\* a round record whose final_answer is the synthesis error text, with the
\* agent answers and the evaluation of the round, and the loop of main.py
\* writes one result file for it, as for a round whose synthesis succeeded;
\* the round is not dropped.
C17_FailedSynthesisRoundIsSaved ==
    /\ (synth.failed /\ pc \in {"done", "saved"}) =>
          /\ result.final_answer = SynthesisErrorText
          /\ result.agent_responses = responses
          /\ result.evaluation = evaluation
    /\ (synth.failed /\ pc = "saved") =>
          /\ file # NoValue
          /\ file.complete
          /\ json_load(file.doc).v.final_answer = PyStr(SynthesisErrorText)
    /\ synth.failed => pc \in {"record", "done", "saved"}

\* the provider a model connection talks to
ProviderOf(llm) ==
    IF llm.class = "ChatGoogleGenerativeAI" THEN "gemini"
    ELSE IF llm.endpoint = "LM_STUDIO_URL" THEN "lm_studio"
    ELSE "other"

Started == conf # NoValue /\ (conf.built # <<>> \/ conf.phase = "aborted")

\* C18: with provider gemini and no API key, constructing a MagiAgent or the
\* DeliberatorAgent raises, so the construction of MagiSystem aborts; and for
\* every value of the provider setting, every model connection that is
\* constructed belongs to the selected provider, never to another one.
C18_ProviderIsTheSelectedOne ==
    Started =>
        /\ (lower(conf.provider) = "gemini" /\ ~conf.gemini_key) =>
              /\ conf.phase = "aborted"
              /\ conf.built = <<>>
              /\ conf.error = ApiKeyRequiredMsg
        /\ \A i \in 1..Len(conf.built) :
              ProviderOf(conf.built[i].llm) = lower(conf.provider)

Searched == rag # NoValue /\ rag.searches > 0

\* C19: RAGTool.search never raises: it returns the "not available" text
\* when the vector store could not be initialised, the "no results" text
\* when the similarity search returns no document, a text describing the
\* error when the search or the formatting raises, and otherwise one block
\* per document, numbered from 1 in result order, each with the source label
\* of the document or "Unknown" when it has none.
C19_SearchNeverRaises ==
    Searched =>
        LET docs == rag.outcome.docs
            text == rag.out.value
            Block(i) == SubSeq(text, 8 * (i - 1) + 1, 8 * (i - 1) + 7)
        IN  /\ ~rag.out.raised
            /\ rag.vectorstore = "None" => text = NotAvailableText
            /\ rag.vectorstore # "None" =>
                  CASE rag.outcome.kind = "raise" ->
                          /\ text[1] = "Error searching knowledge base: "
                          /\ IsSuffix(rag.outcome.msg, text)
                    [] docs = <<>> -> text = NoResultsText
                    [] \E i \in 1..Len(docs) : docs[i].source = "unreadable"
                          -> text[1] = "Error searching knowledge base: "
                    [] OTHER ->
                          /\ Len(text) = 8 * Len(docs) - 1
                          /\ \A i \in 1..Len(docs) :
                                /\ Block(i)[2] = ToString(i)
                                /\ Block(i)[4] =
                                      IF docs[i].source = "absent"
                                      THEN "Unknown" ELSE docs[i].source
                                /\ Block(i)[6] = docs[i].page_content

\* a search of an available store raised and the caller got the error text
C19_Witness ==
    /\ Searched
    /\ rag.vectorstore = "Chroma"
    /\ rag.outcome.kind = "raise"
    /\ ~rag.out.raised
    /\ rag.out.value = <<"Error searching knowledge base: ", "timeout">>

SessionsCorrelated ==
    /\ \A s \in 1..Len(systems) :
          /\ \A i \in 1..Len(systems[s].agents) :
                systems[s].agents[i].session_id = systems[s].session_id
          /\ systems[s].deliberator.session_id = systems[s].session_id
    /\ \A s, t \in 1..Len(systems) :
          s # t => systems[s].session_id # systems[t].session_id
    /\ last.op = "construct" =>
          \A t \in Tables : messages(store, t, last.session_id) = <<>>

\* C21: a session id is generated when a MagiSystem is constructed and never
\* changes afterwards; every agent and the deliberator hold the session id
\* of their system; two systems hold different session ids, so a new system
\* reads zero prior turns for every agent and for the deliberator.
C21_OneFreshSessionIdPerSystem ==
    /\ []SessionsCorrelated
    /\ [][\A s \in 1..Len(systems) : systems'[s] = systems[s]]_vars

\* a second system was constructed after the first had stored turns
C21_Witness ==
    /\ Len(systems) = 2
    /\ last.op = "construct"
    /\ messages(store, "melchior", systems[1].session_id) # <<>>
    /\ messages(store, "melchior", systems[2].session_id) = <<>>

KeysOf(sys) ==
    {<<sys.agents[i].table, sys.agents[i].session_id>> :
        i \in 1..Len(sys.agents)}
    \cup {<<sys.deliberator.table, sys.deliberator.session_id>>}

Changed ==
    {k \in Tables \X SessionIds :
        messages(store, k[1], k[2]) # messages(last.before, k[1], k[2])}

\* C22: the four history keys of a run (table of the persona or
\* "deliberator", with the session id) are pairwise different; respond or
\* clear_memory on one agent leaves the other histories unchanged;
\* process_magi_decision changes only the history of the deliberator; no
\* operation of a run changes a history of another session id, although all
\* runs share the store.
C22_DisjointHistoryKeys ==
    /\ \A s \in 1..Len(systems) :
          Cardinality(KeysOf(systems[s])) = Len(agents) + 1
    /\ \A s, t \in 1..Len(systems) :
          s # t => KeysOf(systems[s]) \cap KeysOf(systems[t]) = {}
    /\ last.op \in {"respond", "clear"} =>
          Changed \subseteq {<<table_name(last.agent), last.session_id>>}
    /\ last.op = "process" =>
          Changed \subseteq {<<DeliberatorTable, last.session_id>>}
    /\ last.op = "clear_all" =>
          \A k \in Changed : k[2] = last.session_id
    /\ last.op = "construct" => Changed = {}

\* an agent of one system cleared its memory while the same agent of the
\* other system had stored turns, which are still there
C22_Witness ==
    /\ last.op = "clear"
    /\ Len(systems) = 2
    /\ \E sid \in SessionIds :
          /\ sid # last.session_id
          /\ messages(store, table_name(last.agent), sid) # <<>>
    /\ messages(store, table_name(last.agent), last.session_id) = <<>>

RoundEnded == pc \in {"done", "saved", "raised"}

\* C23: within a round the calls happen in one order: respond of each agent
\* in turn, then evaluate_responses, then synthesise_final_answer; the
\* deliberator is not invoked before every agent has answered or failed;
\* evaluate_responses and synthesise_final_answer are each invoked once per
\* round, synthesise_final_answer also on the degraded fallback, with the
\* evaluation that evaluate_responses returned.
C23_CallsInFixedOrder ==
    /\ judge.called =>
          /\ calls = RegistrationOrder
          /\ Len(responses) = Len(RegistrationOrder)
    /\ synth.called =>
          /\ judge.called
          /\ pc \notin {"respond", "evaluate", "scores", "synthesise"}
          /\ synth.evaluation = evaluation
    /\ pc \in {"scores", "synthesise"} => (judge.called /\ ~synth.called)
    /\ RoundEnded => (judge.called /\ synth.called)

\* positions of the entries in the text handed to the judge
EntryStarts(text) == {p \in 1..Len(text) : text[p] = "Agent: "}

\* the k-th smallest element of a set of positions
KthOf(S, k) == CHOOSE p \in S : Cardinality({q \in S : q <= p}) = k

\* C24: the text evaluate_responses hands to the judge has one entry (agent
\* name and response text) per input answer with success=true, in input
\* order, and no entry for a failed answer: two entries for three answers of
\* which one failed, none when no answer succeeded.
C24_OneEntryPerSuccessfulAnswer ==
    judge.called =>
        LET ok == Successful(responses)
            starts == EntryStarts(judge.prompt)
        IN  /\ Cardinality(starts) = Len(ok)
            /\ Len(ok) = 0 => judge.prompt = <<>>
            /\ \A k \in 1..Len(ok) :
                  LET p == KthOf(starts, k)
                      entry == <<ok[k].agent, "\nResponse: ">>
                               \o ok[k].response
                  IN  SubSeq(judge.prompt, p + 1, p + Len(entry)) = entry
            /\ \A j \in 1..Len(responses) :
                  ~responses[j].success =>
                      ~Occurs(responses[j].response, judge.prompt)

\* three answers, the second one failed: the judge was invoked on two entries
C24_Witness ==
    /\ judge.called
    /\ judge.invoked
    /\ Len(responses) = 3
    /\ responses[1].success
    /\ ~responses[2].success
    /\ responses[3].success
    /\ Cardinality(EntryStarts(judge.prompt)) = 2

\* positions of the model-authored messages of an exchange
AiPositions(x) == {i \in 1..Len(x) : x[i].type = "ai"}

ExchangeReturned == last.op = "respond" /\ last.fail \notin {"read", "invoke"}

\* C25: on success respond returns the text of the last model-authored
\* message of the exchange, whatever ai or tool messages come before or
\* after it; when the exchange has no model-authored message respond returns
\* a failed answer instead of raising, and writes nothing to the history.
C25_LastAiMessageIsTheAnswer ==
    last.op = "respond" =>
        /\ (~last.out.raised /\ last.out.value.success) =>
              /\ AiPositions(last.exchange) # {}
              /\ \A i \in AiPositions(last.exchange) :
                    (\A j \in AiPositions(last.exchange) : j <= i)
                        => last.out.value.response = last.exchange[i].text
        /\ (ExchangeReturned /\ AiPositions(last.exchange) = {}) =>
              /\ ~last.out.raised
              /\ ~last.out.value.success
              /\ hist[table_name(last.agent)] = last.before

\* the model sent two different ai messages and the answer is the second
C25_Witness ==
    /\ last.op = "respond"
    /\ ~last.out.raised
    /\ last.out.value.success
    /\ Len(last.exchange) = 3
    /\ last.exchange[2].type = "ai"
    /\ last.exchange[3].type = "ai"
    /\ last.exchange[2].text # last.exchange[3].text
    /\ last.out.value.response = last.exchange[3].text

\* a step of the loop of main.py that reads a line
LineRead == rounds' # rounds

Blank(l) == \A i \in 1..Len(l) : l[i] \in Whitespace

\* the line without the blanks around it
Trimmed(l) ==
    IF Blank(l) THEN <<>>
    ELSE LET a == CHOOSE i \in 1..Len(l) :
                    /\ l[i] \notin Whitespace
                    /\ \A k \in 1..(i - 1) : l[k] \in Whitespace
             b == CHOOSE i \in 1..Len(l) :
                    /\ l[i] \notin Whitespace
                    /\ \A k \in (i + 1)..Len(l) : l[k] \in Whitespace
         IN  SubSeq(l, a, b)

EndsLoop == pc' = "exited" /\ UNCHANGED <<hist, files>>

ClearsOnly == AllHistoriesEmpty' /\ pc' = pc /\ files' = files

DoesNothing == UNCHANGED <<hist, pc, files>>

RunsRoundOn(query) == pc' = "respond" /\ question' = query /\ files' = files

\* a round that returned is followed by one file, and files come from nowhere
\* else
OneFilePerReturnedRound ==
    /\ pc = "done" => (files' = files + 1 /\ pc' \in {"saved", "raised"})
    /\ files' # files => pc = "done"

\* C26 as stated: quit and exit in any case end the loop, clear clears, the
\* empty line does nothing, and every other line runs one round that writes
\* one file when it returns.
C26_EveryOtherLineRunsARound ==
    [][/\ LineRead =>
            IF lower_text(line') \in {<<"quit">>, <<"exit">>} THEN EndsLoop
            ELSE IF line' = <<"clear">> THEN ClearsOnly
            ELSE IF line' = <<>> THEN DoesNothing
            ELSE RunsRoundOn(line')
       /\ OneFilePerReturnedRound]_vars

\* C26, amended: the line is taken without the blanks around it; quit, exit
\* and q in any case end the loop without a round; clear in any case wipes
\* every history and runs no round; a line of blanks does nothing; every
\* other line runs exactly one round on the trimmed line, which writes
\* exactly one file when it returns; and the loop ends on no other step, a
\* failed round included.
C26_LoopCommands ==
    [][/\ LineRead =>
            IF Blank(line') THEN DoesNothing
            ELSE IF lower_text(Trimmed(line')) \in
                        {<<"quit">>, <<"exit">>, <<"q">>}
            THEN EndsLoop
            ELSE IF lower_text(Trimmed(line')) = <<"clear">> THEN ClearsOnly
            ELSE RunsRoundOn(Trimmed(line'))
       /\ OneFilePerReturnedRound
       /\ pc' = "exited" => (LineRead /\ pc # "exited")
       /\ pc' = "respond" /\ pc # "respond" => LineRead
       /\ pc = "exited" => UNCHANGED vars]_vars

\* a first round answered by the agents failed without a file, the loop went
\* on, and the round of a second line with blanks around it was saved
C26_Witness ==
    /\ pc = "saved"
    /\ files = 1
    /\ line = <<" ", "q2", " ">>
    /\ question = <<"q2">>
    /\ \E n \in AgentNames : Len(hist[table_name(n)]) = 4

\* a history made of a question followed at once by its answer, repeatedly
IsPairs(h) ==
    /\ Len(h) % 2 = 0
    /\ \A k \in 1..Len(h) :
          h[k].role = (IF k % 2 = 1 THEN "human" ELSE "ai")

SameKey(t, u) ==
    /\ thread_agent(t).session_id = thread_agent(u).session_id
    /\ thread_agent(t).table = thread_agent(u).table

Writing(t) == t.pc \in {"add_user", "add_ai"}

HistoryOf(st, s, i) ==
    messages(st, systems[s].agents[i].table, systems[s].agents[i].session_id)

\* C27: respond calls of different sessions cannot affect each other in any
\* interleaving: a history changes only on a write of a call of its own
\* session and agent, and as long as no two calls share a session and an
\* agent every history read at rest is a sequence of adjacent (question,
\* answer) pairs.
C27_OnlySameSessionCallsRace ==
    /\ [](((\A j, k \in 1..Len(threads) :
                j # k => ~SameKey(threads[j], threads[k]))
            /\ (\A k \in 1..Len(threads) : threads[k].pc # "add_ai"))
           => \A s \in 1..Len(systems), i \in 1..Len(agents) :
                 IsPairs(HistoryOf(store, s, i)))
    /\ [][\A s \in 1..Len(systems), i \in 1..Len(agents) :
            HistoryOf(store', s, i) # HistoryOf(store, s, i) =>
                \E k \in 1..Len(threads) :
                    /\ Writing(threads[k])
                    /\ threads'[k] # threads[k]
                    /\ threads[k].system = s
                    /\ threads[k].agent = i]_vars

\* two calls on the same agent of the same session have finished and the
\* history holds both questions before both answers
C27_Witness ==
    /\ Len(threads) = 2
    /\ SameKey(threads[1], threads[2])
    /\ threads[1].pc = "done"
    /\ threads[2].pc = "done"
    /\ LET h == HistoryOf(store, threads[1].system, threads[1].agent)
       IN  /\ Len(h) = 4
           /\ ~IsPairs(h)
           /\ h[1].role = "human"
           /\ h[2].role = "human"

\* C28: when the deliberation of a query submitted on the page returns, the
\* page appends to chat_history exactly one entry, with the question, the
\* agent answers, the evaluation and the final answer that query_magi
\* returns for the same round.
C28_PageAppendsTheRound ==
    [][pc = "done" =>
          /\ Len(chat_history') = Len(chat_history) + 1
          /\ LET entry == chat_history'[Len(chat_history')]
             IN  /\ entry.question = result.question
                 /\ entry.agent_responses = result.agent_responses
                 /\ entry.evaluation = round_record(result).v.evaluation
                 /\ entry.final_answer = PyStr(result.final_answer)]_vars

HasTool(component, tool) ==
    \E k \in 1..Len(component.tools) : component.tools[k] = tool

\* C29: a get_rag_tool that raises never aborts the construction of an
\* agent: the agent is built, its tools hold no knowledge tool and still
\* hold the search tool when enable_search is true; with enable_rag false
\* the tools never hold a knowledge tool; the only construction that aborts
\* is the one without the API key.
C29_RagFailureLeavesAgentWithoutTool ==
    Started =>
        /\ conf.phase = "aborted" => conf.error = ApiKeyRequiredMsg
        /\ (lower(conf.provider) # "gemini" \/ conf.gemini_key) =>
              conf.phase # "aborted"
        /\ \A i \in 1..Len(conf.built) : i <= Len(agents) =>
              /\ HasTool(conf.built[i], "knowledge_base_search")
                    <=> (conf.enable_rag /\ ~conf.built[i].rag_raised)
              /\ HasTool(conf.built[i], "DuckDuckGoSearchRun")
                    <=> conf.enable_search
              /\ Len(conf.built[i].tools) <= 2

\* search and rag are enabled, get_rag_tool raised for the second agent, and
\* all three agents were built, the second with the search tool only
C29_Witness ==
    /\ conf # NoValue
    /\ conf.enable_rag
    /\ conf.enable_search
    /\ Len(conf.built) = Len(agents)
    /\ conf.built[2].rag_raised
    /\ conf.built[2].tools = <<"DuckDuckGoSearchRun">>
    /\ ~conf.built[1].rag_raised

RecordKeys ==
    {"question", "timestamp", "agent_responses", "evaluation", "final_answer"}

\* C20: every round a front end persists (the loop of main.py,
\* run_single_query and run_example_queries of example.py) is written as a
\* record with exactly the keys question, timestamp, agent_responses,
\* evaluation and final_answer, and reading the file back gives the values
\* of the round.
C20_PersistedRecordRoundTrips ==
    file # NoValue =>
        /\ file.complete
        /\ LET back == json_load(file.doc)
           IN  /\ back.py = "dict"
               /\ DOMAIN back.v = RecordKeys
               /\ back.v.question = PyStr(result.question)
               /\ back.v.final_answer = PyStr(result.final_answer)
               /\ Len(back.v.agent_responses.v) = Len(result.agent_responses)
               /\ \A i \in 1..Len(result.agent_responses) :
                     /\ back.v.agent_responses.v[i].v.agent.v
                           = result.agent_responses[i].agent
                     /\ back.v.agent_responses.v[i].v.response.v
                           = result.agent_responses[i].response
                     /\ back.v.agent_responses.v[i].v.success.v
                           = result.agent_responses[i].success
               /\ back.v.evaluation.py = "dict"
               /\ back.v.evaluation.v.synthesis.v
                     = result.evaluation.synthesis
               /\ back.v.evaluation.v.voting_result.v
                     = result.evaluation.voting_result
               /\ Len(back.v.evaluation.v.evaluations.v)
                     = Len(result.evaluation.evaluations)
               /\ \A i \in 1..Len(result.evaluation.evaluations) :
                     /\ back.v.evaluation.v.evaluations.v[i].v.agent.v
                           = result.evaluation.evaluations[i].agent
                     /\ back.v.evaluation.v.evaluations.v[i].v.score.v
                           = result.evaluation.evaluations[i].score
                     /\ back.v.evaluation.v.evaluations.v[i].v.reasoning.v
                           = result.evaluation.evaluations[i].reasoning

====
